---- MODULE Spec2Model ----
(***************************************************************************)
(* Ingestion pipeline of the RSS & e-mail aggregator: the items table      *)
(* (models.py), the feed cycle (feeds.py), the mail cycle (email_fetch.py) *)
(* and the two APScheduler schedules that drive them.                      *)
(***************************************************************************)
EXTENDS Integers, Sequences, FiniteSets, TLC

\* ------------------------------------------------------------------ bounds
\* Number of configured sources taken from RSS_FEEDS (config.py has 29).
NumFeeds == 2
\* Longest parsed feed document / longest mailbox search result.
MaxEntries == 2
\* Cycle invocations (scheduled, immediate and manual together) in one run.
MaxCycles == 2
\* The clock runs from Epoch to MaxClock.
MaxClock == 4
\* Rows in the table when messages of the whole mailbox are submitted.
MaxRows == 2
\* Largest limit a query is given.
MaxLimit == 2
\* Seconds in a day, on the scale of the model's clock.
SecondsPerDay == 2

\* ------------------------------------------------------------ configuration
\* First names of RSS_FEEDS, in the insertion order of the dict.
SourceNames ==
  <<"Reuters Business News", "MarketWatch Top Stories", "BBC Business",
    "Yahoo Finance", "The Economist Finance">>

RSS_FEEDS == [i \in 1..NumFeeds |-> SourceNames[i]]

\* First reading of datetime.utcnow(); entry timestamps lie before it.
Epoch == 3

\* dict.get(key, default)
Get(d, k, dflt) == IF k \in DOMAIN d THEN d[k] ELSE dflt

\* hasattr(entry, k) and entry.k : the attribute exists and is truthy
Truthy(d, k) == k \in DOMAIN d /\ d[k] # 0

Range(s) == {s[i] : i \in DOMAIN s}

SeqsUpTo(S, n) == UNION {[1..k -> S] : k \in 0..n}

\* -------------------------------------------------------------- feed input
\* Entries a parsed feed may hold (feedparser entry dicts).  A missing key is
\* a missing field; timestamps are *_parsed values, 0 for None (feedparser
\* could not parse the date).
FeedEntries ==
  { [title |-> "Fed raises rates", link |-> "https://example.com/a",
     published_parsed |-> 1, updated_parsed |-> 2, summary |-> "..."],
    [link |-> "https://example.com/a", updated_parsed |-> 2,
     description |-> "desc"],
    [title |-> "", link |-> "https://example.com/b", published_parsed |-> 0],
    [title |-> "No link", published_parsed |-> 1],
    [link |-> ""] }

\* -------------------------------------------------------------- mail input
\* Ids of the messages a search returns.
MessageIds == {"m1", "m2"}

\* Ids of all messages of the mailbox.
MailboxIds == MessageIds \cup {"m3", "m4", "m5", "m6"}

\* HTML content, decoded: the elements in document order, each with its tag
\* and the text inside it, and whether BeautifulSoup raises on the markup
\* (markup html.parser rejects, nesting beyond the recursion limit).  The
\* texts carry no outer whitespace and none of the newsletter phrases.
EmptyHtml == [nodes |-> <<>>, rejected |-> FALSE]

Newsletter ==
  [nodes |-> <<[tag |-> "style", text |-> "p{margin:0}"],
               [tag |-> "p", text |-> "Markets rallied on Friday"],
               [tag |-> "span", text |-> "ok"]>>,
   rejected |-> FALSE]

Malformed ==
  [nodes |-> <<[tag |-> "div", text |-> "Breaking story of the day"]>>,
   rejected |-> TRUE]

\* The mailbox: Gmail message objects by id (users.messages.get, format=full).
\* headers is the name -> value dict of the payload's header list; body data
\* is shown decoded.
Mailbox ==
  [id \in MailboxIds |->
     CASE id = "m1" ->
          [id |-> "m1", internalDate |-> 2000,
           payload |-> [mimeType |-> "text/plain",
                        headers |-> [Subject |-> "Weekly digest",
                                     From |-> "news@example.com",
                                     Date |-> "Thu, 01 Jan 1970 00:00:01 +0000"],
                        body |-> [data |-> "plain body"]]]
       [] id = "m2" ->
          [id |-> "m2",
           payload |-> [mimeType |-> "multipart/alternative",
                        headers |-> [Date |-> "not a date"],
                        parts |-> <<[mimeType |-> "text/plain",
                                     body |-> [data |-> "part one"]],
                                    [mimeType |-> "image/png",
                                     body |-> [attachmentId |-> "a1"]]>>]]
       [] id = "m3" ->
          [id |-> "m3", internalDate |-> 2000,
           payload |-> [mimeType |-> "text/html",
                        headers |-> [Subject |-> "HTML only"],
                        body |-> [data |-> Newsletter]]]
       [] id = "m4" ->
          [id |-> "m4", internalDate |-> 2000,
           payload |-> [mimeType |-> "multipart/mixed",
                        headers |-> [Subject |-> "With attachment",
                                     Date |-> "not a date"],
                        parts |-> <<[mimeType |-> "multipart/alternative",
                                     body |-> [size |-> 0],
                                     parts |-> <<[mimeType |-> "text/plain",
                                                  body |-> [data |-> "nested text"]],
                                                 [mimeType |-> "text/html",
                                                  body |-> [data |-> Newsletter]]>>],
                                    [mimeType |-> "application/pdf",
                                     body |-> [attachmentId |-> "a2"]]>>]]
       [] id = "m5" ->
          [id |-> "m5",
           payload |-> [mimeType |-> "multipart/alternative",
                        headers |-> [Subject |-> "Broken markup"],
                        parts |-> <<[mimeType |-> "text/html",
                                     body |-> [data |-> Malformed]]>>]]
       [] OTHER ->
          [id |-> "m6", internalDate |-> 2000,
           payload |-> [mimeType |-> "multipart/mixed",
                        headers |-> [Subject |-> "Two texts",
                                     Date |-> "Thu, 01 Jan 1970 00:00:01 +0000"],
                        parts |-> <<[mimeType |-> "text/plain",
                                     body |-> [data |-> "part one"]],
                                    [mimeType |-> "text/html",
                                     body |-> [data |-> Newsletter]],
                                    [mimeType |-> "text/plain",
                                     body |-> [data |-> "part two"]]>>]]]

\* Search results: lists of message references, no id twice.
SearchResults ==
  {s \in SeqsUpTo(MessageIds, MaxEntries) :
     \A i, j \in DOMAIN s : i # j => s[i] # s[j]}

\* ------------------------------------------------------------------ threads
Kinds == {"rss", "email"}

\* Per kind: the caller of start_scheduler (it runs the initial fetch), the
\* scheduler's worker running the interval job, and an out-of-band caller of
\* fetch_feeds_now / fetch_emails_now (CLI run_once, the UI buttons).
StartThread(k) == k \o "_start"
JobThread(k) == k \o "_job"
ManualThread(k) == k \o "_manual"

FeedThreads == {StartThread("rss"), JobThread("rss"), ManualThread("rss")}
MailThreads == {StartThread("email"), JobThread("email"), ManualThread("email")}
Threads == FeedThreads \cup MailThreads

JobId(k) == k \o "_fetch_job"

VARIABLES
  store,          \* rows of the items table, in insertion order
  now,            \* datetime.utcnow()
  authenticated,  \* gmail_fetcher.authenticated
  scheduler,      \* per kind: "None", "running" or "shutdown"
  jobs,           \* per kind: ids in the job store of the current scheduler
  pc,             \* per thread: where it is in its cycle
  src,            \* feed threads: position in RSS_FEEDS.items()
  n_entries,      \* feed threads: len(feed.entries) of the source in hand
  messages,       \* mail threads: the search result being processed
  idx,            \* position of the item loop (1-based; Len+1 when exhausted)
  new_items,      \* links of the items this batch committed
  results,        \* feed threads: the summary fetch_all_feeds builds
  fetch_log,      \* feed threads: sources whose fetch logged an error
  item_log,       \* per thread, per entry read in this batch: whether it had
                  \* a link, and what became of it
  raised,         \* per thread: the last invocation left with an exception
  invocations,    \* cycle invocations begun so far
  call,           \* the last candidate handed to the Store directly, and
                  \* what came back
  daemon,         \* run_daemon: where the main thread is, self.running, and
                  \* whether a shutdown signal was delivered
  sessions        \* per thread: the session of its fetch is open

vars ==
  <<store, now, authenticated, scheduler, jobs, pc, src, n_entries, messages,
    idx, new_items, results, fetch_log, item_log, raised, invocations, call,
    daemon, sessions>>

\* -------------------------------------------------------------------- Store
Links(st) == {st[i].link : i \in DOMAIN st}

\* A table without the constraint: no flush is ever refused.
NoUniqueConstraint(st, item) == FALSE

\* A constraint on the pair of link and source: a link is turned away only
\* when the same source brought it before.
UniquePerSource(st, item) ==
  \E i \in DOMAIN st : st[i].link = item.link /\ st[i].source = item.source

\* The UNIQUE constraint on items.link: the flush of a row whose link is
\* already in the table raises IntegrityError.
UniqueViolation(st, item) == item.link \in Links(st)

\* A committed row: the candidate's fields, the autoincrement id and the
\* created_at default.
Row(st, item, utcnow) ==
  [id |-> Len(st) + 1, title |-> item.title, link |-> item.link,
   published |-> item.published, summary |-> item.summary,
   source |-> item.source, created_at |-> utcnow]

\* session.add(item); session.commit() and the handlers around it.
\* fault: the commit raises something other than IntegrityError (the
\* database is locked, the disk is full); the handler rolls back.
InsertOutcome(st, item, fault) ==
  IF fault THEN "error"
  ELSE IF UniqueViolation(st, item) THEN "duplicate"
  ELSE "inserted"

\* One commit for the whole batch, so that the rollback after an error
\* takes the row added before it along.
StoreAfterRollbackLast(st, item, utcnow, outcome) ==
  IF outcome = "inserted" THEN Append(st, Row(st, item, utcnow))
  ELSE IF outcome = "error" /\ st # <<>> THEN SubSeq(st, 1, Len(st) - 1)
  ELSE st

\* session.merge in place of session.add: a known link has its row
\* overwritten with the candidate's fields.
StoreAfterMerge(st, item, utcnow, outcome) ==
  IF outcome = "inserted" THEN Append(st, Row(st, item, utcnow))
  ELSE IF outcome = "duplicate"
  THEN [i \in DOMAIN st |->
          IF st[i].link = item.link
          THEN [st[i] EXCEPT !.title = item.title, !.published = item.published,
                             !.summary = item.summary, !.source = item.source]
          ELSE st[i]]
  ELSE st

StoreAfter(st, item, utcnow, outcome) ==
  IF outcome = "inserted" THEN Append(st, Row(st, item, utcnow)) ELSE st

\* --------------------------------------------------------------- FeedSource
\* The two branches the other way round: updated_parsed is looked at first.
PublishedUpdatedFirst(e, utcnow) ==
  IF Truthy(e, "updated_parsed") THEN e.updated_parsed
  ELSE IF Truthy(e, "published_parsed") THEN e.published_parsed
  ELSE utcnow

\* published: published_parsed, else updated_parsed, else utcnow().
Published(e, utcnow) ==
  IF Truthy(e, "published_parsed") THEN e.published_parsed
  ELSE IF Truthy(e, "updated_parsed") THEN e.updated_parsed
  ELSE utcnow

\* The Item built from one feed entry.
FeedItem(e, source_name, utcnow) ==
  [title |-> Get(e, "title", "No Title"),
   link |-> Get(e, "link", ""),
   published |-> Published(e, utcnow),
   summary |-> Get(e, "summary", Get(e, "description", "")),
   source |-> source_name]

\* `if link is None`: only an entry without the key is dropped.
SkipsAbsent(e) == "link" \notin DOMAIN e

\* The entry carries a link: the key is there and its value is not empty.
HasLink(e) == "link" \in DOMAIN e /\ e.link # ""

\* `if not link: continue`
SkipsEntry(e) == Get(e, "link", "") = ""

\* --------------------------------------------------------------- MailSource
\* email.utils.parsedate_to_datetime: the timestamp, or 0 where it raises
\* (an empty or malformed Date header).
ParseDateToDatetime(date_str) ==
  IF date_str = "Thu, 01 Jan 1970 00:00:01 +0000" THEN 1 ELSE 0

\* Straight from the Date header to the clock: internalDate is not looked at.
MailPublishedNoInternal(message, utcnow) ==
  LET date_str == Get(message.payload.headers, "Date", "")
  IN IF ParseDateToDatetime(date_str) # 0 THEN ParseDateToDatetime(date_str)
     ELSE utcnow

MailPublished(message, utcnow) ==
  LET date_str == Get(message.payload.headers, "Date", "")
      internal_ms == Get(message, "internalDate", 0)
  IN IF ParseDateToDatetime(date_str) # 0 THEN ParseDateToDatetime(date_str)
     ELSE IF internal_ms # 0 THEN internal_ms \div 1000
     ELSE utcnow

RECURSIVE PlainText(_)
\* The text/plain data of a list of parts, concatenated in order.
PlainText(parts) ==
  IF parts = <<>> THEN ""
  ELSE LET part == Head(parts)
       IN (IF part.mimeType = "text/plain" THEN Get(part.body, "data", "") ELSE "")
            \o PlainText(Tail(parts))

\* html_body += ... : one piece of markup after the other.
HtmlConcat(h, g) ==
  [nodes |-> h.nodes \o g.nodes, rejected |-> h.rejected \/ g.rejected]

RECURSIVE HtmlText(_)
\* The text/html data of a list of parts, concatenated in order.
HtmlText(parts) ==
  IF parts = <<>> THEN EmptyHtml
  ELSE LET part == Head(parts)
       IN HtmlConcat(IF part.mimeType = "text/html"
                     THEN Get(part.body, "data", EmptyHtml) ELSE EmptyHtml,
                     HtmlText(Tail(parts)))

\* body and html_body as _extract_email_body collects them: from the parts
\* of payload["parts"], or from the payload itself when it has none.
PlainOf(payload) ==
  IF "parts" \in DOMAIN payload THEN PlainText(payload.parts)
  ELSE IF payload.mimeType = "text/plain" THEN Get(payload.body, "data", "")
  ELSE ""

HtmlOf(payload) ==
  IF "parts" \in DOMAIN payload THEN HtmlText(payload.parts)
  ELSE IF payload.mimeType = "text/html" THEN Get(payload.body, "data", EmptyHtml)
  ELSE EmptyHtml

RECURSIVE AllText(_)
\* re.sub(r"<[^>]+>", "", html): the markup without its tags, the content of
\* every element left in.
AllText(nodes) ==
  IF nodes = <<>> THEN "" ELSE Head(nodes).text \o AllText(Tail(nodes))

StripTags(html) == AllText(html.nodes)

unwanted_tags == {"script", "style", "meta", "link", "head", "title"}

RECURSIVE CleanLines(_)
\* The lines _html_to_text keeps: unwanted elements are gone, and so is
\* every line of ten characters or less.
CleanLines(nodes) ==
  IF nodes = <<>> THEN <<>>
  ELSE (IF Head(nodes).tag \notin unwanted_tags /\ Len(Head(nodes).text) > 10
        THEN <<Head(nodes).text>> ELSE <<>>) \o CleanLines(Tail(nodes))

RECURSIVE JoinLines(_)
\* "\n".join(clean_lines)
JoinLines(lines) ==
  IF lines = <<>> THEN ""
  ELSE IF Len(lines) = 1 THEN lines[1]
  ELSE lines[1] \o "\n" \o JoinLines(Tail(lines))

\* _html_to_text has no handler but the one for ImportError: with bs4
\* installed, whatever BeautifulSoup raises leaves the function.
HtmlToTextRaises(html, bs4) == bs4 /\ html.rejected

\* _html_to_text where it returns: the tag-stripping fallback without bs4,
\* the cleaned lines with it.
HtmlToText(html, bs4) ==
  IF ~bs4 THEN StripTags(html) ELSE JoinLines(CleanLines(html.nodes))

\* parse_email_content leaves with an exception: the body is taken from the
\* HTML and _html_to_text raises.
ParseRaises(message, bs4) ==
  /\ PlainOf(message.payload) = ""
  /\ HtmlOf(message.payload).nodes # <<>>
  /\ HtmlToTextRaises(HtmlOf(message.payload), bs4)

\* _extract_email_body: the plain text if there is any, else the HTML as
\* text, else nothing.
ExtractEmailBody(payload, bs4) ==
  IF PlainOf(payload) # "" THEN PlainOf(payload)
  ELSE IF HtmlOf(payload).nodes # <<>> THEN HtmlToText(HtmlOf(payload), bs4)
  ELSE ""

\* The link built from the subject line instead of the message id.
MailItemBySubject(message, utcnow, bs4) ==
  [title |-> Get(message.payload.headers, "Subject", "No Subject"),
   link |-> "local://email/" \o Get(message.payload.headers, "Subject", "No Subject"),
   published |-> MailPublished(message, utcnow),
   summary |-> ExtractEmailBody(message.payload, bs4),
   source |-> "email"]

\* parse_email_content, then the Item built from it.
MailItem(message, utcnow, bs4) ==
  [title |-> Get(message.payload.headers, "Subject", "No Subject"),
   link |-> "local://email/" \o message.id,
   published |-> MailPublished(message, utcnow),
   summary |-> ExtractEmailBody(message.payload, bs4),
   source |-> "email"]

\* --------------------------------------------------------------------- Init
\* AggregatorApp.__init__: running is False and run_daemon was not called.
NotStarted == [pc |-> "init", running |-> FALSE, signalled |-> FALSE]

\* run_daemon in `while self.running`, no signal delivered so far.
InMainLoop == [pc |-> "loop", running |-> TRUE, signalled |-> FALSE]

Init ==
  /\ store = <<>>
  /\ now = Epoch
  /\ authenticated = FALSE
  /\ scheduler = [k \in Kinds |-> "None"]
  /\ jobs = [k \in Kinds |-> {}]
  /\ pc = [t \in Threads |-> "idle"]
  /\ src = [t \in FeedThreads |-> 0]
  /\ n_entries = [t \in FeedThreads |-> 0]
  /\ messages = [t \in MailThreads |-> <<>>]
  /\ idx = [t \in Threads |-> 0]
  /\ new_items = [t \in Threads |-> <<>>]
  /\ results = [t \in FeedThreads |-> <<>>]
  /\ fetch_log = [t \in FeedThreads |-> {}]
  /\ item_log = [t \in Threads |-> <<>>]
  /\ raised = [t \in Threads |-> FALSE]
  /\ invocations = 0
  /\ call = <<>>
  /\ daemon = NotStarted
  /\ sessions = [t \in Threads |-> FALSE]

\* ------------------------------------------------------------ invocations
\* fetch_newsletter_emails without its first statement: the mailbox is
\* searched whether Gmail is authenticated or not.
BeginCycleUnchecked(t) ==
  /\ pc[t] = "idle"
  /\ invocations < MaxCycles
  /\ invocations' = invocations + 1
  /\ IF t \in FeedThreads
     THEN /\ pc' = [pc EXCEPT ![t] = "fetch"]
          /\ src' = [src EXCEPT ![t] = 1]
     ELSE /\ pc' = [pc EXCEPT ![t] = "search"]
          /\ src' = src
  /\ UNCHANGED <<store, now, authenticated, n_entries, messages, idx,
                 new_items,
                 results, fetch_log, item_log, raised, call, daemon, sessions>>

\* Entry of fetch_all_feeds (results = {}) or of fetch_newsletter_emails
\* (which returns [] at once when not authenticated).
BeginCycle(t) ==
  /\ pc[t] = "idle"
  /\ invocations < MaxCycles
  /\ invocations' = invocations + 1
  /\ IF t \in FeedThreads
     THEN /\ pc' = [pc EXCEPT ![t] = "fetch"]
          /\ src' = [src EXCEPT ![t] = 1]
     ELSE /\ pc' = [pc EXCEPT ![t] = IF authenticated THEN "search" ELSE "returned"]
          /\ src' = src
  /\ UNCHANGED <<store, now, authenticated, n_entries, messages, idx,
                 new_items,
                 results, fetch_log, item_log, raised, call, daemon, sessions>>

\* The caller has the return value; the thread is free again.
Collect(t) ==
  /\ pc[t] = "returned"
  /\ pc' = [pc EXCEPT ![t] = "idle"]
  /\ new_items' = [new_items EXCEPT ![t] = <<>>]
  /\ IF t \in FeedThreads
     THEN /\ results' = [results EXCEPT ![t] = <<>>]
          /\ fetch_log' = [fetch_log EXCEPT ![t] = {}]
          /\ src' = [src EXCEPT ![t] = 0]
     ELSE UNCHANGED <<results, fetch_log, src>>
  /\ raised' = [raised EXCEPT ![t] = FALSE]
  /\ UNCHANGED <<store, now, authenticated, scheduler, jobs, n_entries, messages,
                 idx, item_log, invocations, call, daemon, sessions>>

\* ---------------------------------------------------------------- Scheduler
\* start_scheduler without its last statement: the job is registered, the
\* first fetch is left to the first tick.
StartSchedulerNoFetch(k) ==
  /\ pc[StartThread(k)] = "idle"
  /\ IF (k = "email" /\ ~authenticated) \/ scheduler[k] = "running"
     THEN UNCHANGED vars
     ELSE /\ scheduler' = [scheduler EXCEPT ![k] = "running"]
          /\ jobs' = [jobs EXCEPT ![k] = {JobId(k)}]
          /\ UNCHANGED <<store, now, authenticated, pc, src, n_entries, messages,
                         idx, new_items, results, fetch_log, item_log, raised,
                         invocations, call, daemon, sessions>>

\* start_scheduler without the look at self.scheduler.running: every call
\* makes a scheduler with its job and runs a cycle.
StartSchedulerAgain(k) ==
  /\ pc[StartThread(k)] = "idle"
  /\ IF k = "email" /\ ~authenticated
     THEN UNCHANGED vars
     ELSE /\ scheduler' = [scheduler EXCEPT ![k] = "running"]
          /\ jobs' = [jobs EXCEPT ![k] = {JobId(k)}]
          /\ BeginCycle(StartThread(k))

\* start_scheduler: nothing when (mail) not authenticated or when already
\* running; otherwise a fresh BackgroundScheduler with the one interval job,
\* started, and the initial fetch in the caller's thread.
StartScheduler(k) ==
  /\ pc[StartThread(k)] = "idle"
  /\ IF (k = "email" /\ ~authenticated) \/ scheduler[k] = "running"
     THEN UNCHANGED vars
     ELSE /\ scheduler' = [scheduler EXCEPT ![k] = "running"]
          /\ jobs' = [jobs EXCEPT ![k] = {JobId(k)}]
          /\ BeginCycle(StartThread(k))

\* A shutdown that cancels the run in flight: the job's worker is back at
\* rest with its batch abandoned.
StopSchedulerCancels(k) ==
  /\ scheduler[k] = "running"
  /\ scheduler' = [scheduler EXCEPT ![k] = "shutdown"]
  /\ pc' = [pc EXCEPT ![JobThread(k)] = "idle"]
  /\ UNCHANGED <<store, now, authenticated, jobs, src, n_entries, messages,
                 idx, new_items, results, fetch_log, item_log, raised,
                 invocations, call, daemon, sessions>>

\* stop_scheduler: shutdown(wait=False) of a running scheduler.
StopScheduler(k) ==
  /\ scheduler[k] = "running"
  /\ scheduler' = [scheduler EXCEPT ![k] = "shutdown"]
  /\ UNCHANGED <<store, now, authenticated, jobs, pc, src, n_entries, messages,
                 idx, new_items, results, fetch_log, item_log, raised,
                 invocations, call, daemon, sessions>>

\* A one-shot trigger in place of the interval trigger: the job leaves the
\* job store with its first run.
TickOnce(k) ==
  /\ scheduler[k] = "running"
  /\ JobId(k) \in jobs[k]
  /\ BeginCycle(JobThread(k))
  /\ jobs' = [jobs EXCEPT ![k] = {}]
  /\ UNCHANGED scheduler

\* A job whose last run raised is not run again.
TickUnlessRaised(k) ==
  /\ scheduler[k] = "running"
  /\ JobId(k) \in jobs[k]
  /\ ~raised[JobThread(k)]
  /\ BeginCycle(JobThread(k))
  /\ UNCHANGED <<scheduler, jobs>>

\* The interval trigger fires: the scheduler runs the job's function on its
\* worker (one instance of a job at a time).
Tick(k) ==
  /\ scheduler[k] = "running"
  /\ JobId(k) \in jobs[k]
  /\ BeginCycle(JobThread(k))
  /\ UNCHANGED <<scheduler, jobs>>

\* fetch_feeds_now / fetch_emails_now called out of band.
Manual(k) ==
  /\ BeginCycle(ManualThread(k))
  /\ UNCHANGED <<scheduler, jobs>>

\* authenticate() succeeded (a failure leaves the flag as it is).
Authenticate ==
  /\ ~authenticated
  /\ authenticated' = TRUE
  /\ UNCHANGED <<store, now, scheduler, jobs, pc, src, n_entries, messages, idx,
                 new_items, results, fetch_log, item_log, raised, invocations, call, daemon, sessions>>

\* The clock moves on between two Store calls.
TimePasses ==
  /\ now < MaxClock
  /\ now' = now + 1
  /\ UNCHANGED <<store, authenticated, scheduler, jobs, pc, src, n_entries, messages, idx, new_items, results, fetch_log, item_log, raised,
                 invocations, call, daemon, sessions>>

\* --------------------------------------------------------------- feed cycle
\* The summary entry fetch_all_feeds writes for a source that returned.
Success(items) == [success |-> TRUE, new_items |-> Len(items)]

\* A failed source ends the cycle.
AfterSourceAbort(i, failed) ==
  IF failed \/ i = NumFeeds THEN "returned" ELSE "fetch"

\* The loop over RSS_FEEDS.items() goes on with the next source whether the
\* one in hand failed or not, and returns after the last.
AfterSource(i, failed) == IF i = NumFeeds THEN "returned" ELSE "fetch"

\* A source whose fetch failed is fetched again.
NextSourceRetry(i, failed) == IF failed THEN i ELSE i + 1

\* The for loop takes the next item of RSS_FEEDS.items(), whatever became
\* of the one in hand.
NextSource(i, failed) == i + 1

\* results[source_name] = ...; then the next source, or the return.
Record(t, items, failed) ==
  /\ results' = [results EXCEPT
                   ![t] = [n \in DOMAIN @ \cup {RSS_FEEDS[src[t]]} |->
                             IF n = RSS_FEEDS[src[t]] THEN Success(items) ELSE @[n]]]
  /\ src' = [src EXCEPT ![t] = NextSource(@, failed)]
  /\ pc' = [pc EXCEPT ![t] = AfterSource(src[t], failed)]

\* session.close() written after the item loop instead of in `finally`:
\* an exception that leaves the loop leaves the session open.
CloseAfterLoop(open, path) == IF path = "done" THEN FALSE ELSE open

\* `finally: session.close()` around the item loop: the session is closed
\* whether the loop ran to its end ("done") or an exception left it
\* ("escape").
CloseSession(open, path) == FALSE

\* What makes fetch_single_feed fail before the item loop: requests.get
\* times out or cannot connect or raise_for_status rejects the status
\* (requests.RequestException); feedparser.parse raises; get_db_session()
\* raises because the database cannot be opened.
FetchFaults == {"network", "parse", "store"}

\* fetch_single_feed fails before the item loop for the given reason.  The
\* handler for RequestException and the one for Exception differ in the
\* text they log and in nothing else: each returns [].
FetchFailsOn(t, fault) ==
  /\ t \in FeedThreads
  /\ pc[t] = "fetch"
  /\ fault \in FetchFaults
  /\ fetch_log' = [fetch_log EXCEPT ![t] = @ \cup {RSS_FEEDS[src[t]]}]
  /\ Record(t, <<>>, TRUE)
  /\ UNCHANGED <<store, now, authenticated, scheduler, jobs, n_entries, messages,
                 idx, new_items, item_log, raised, invocations, call, daemon, sessions>>

\* fetch_single_feed fails before the item loop.
FetchFails(t) == \E fault \in FetchFaults : FetchFailsOn(t, fault)

\* The response parses: feed.entries has some length, a session is opened
\* and the item loop begins.  The entries themselves are read one per pass.
FetchParses(t) ==
  /\ t \in FeedThreads
  /\ pc[t] = "fetch"
  /\ \E n \in 0..MaxEntries : n_entries' = [n_entries EXCEPT ![t] = n]
  /\ idx' = [idx EXCEPT ![t] = 1]
  /\ pc' = [pc EXCEPT ![t] = "items"]
  /\ sessions' = [sessions EXCEPT ![t] = TRUE]
  /\ UNCHANGED <<store, now, authenticated, scheduler, jobs, src, messages,
                 new_items, results, fetch_log, item_log, raised, invocations, call, daemon>>

\* new_items.append(item) moved before the commit: an attempt the table
\* turns away is counted all the same.
CountsAttempt(outcome) == outcome \in {"inserted", "duplicate"}

\* new_items.append(item) comes after the commit: only a committed item is
\* counted.
CountsAsNew(outcome) == outcome = "inserted"

\* `break` in the handlers: a duplicate or an error ends the loop.
NextIndexBreak(i, outcome) ==
  IF outcome \in {"duplicate", "error"} THEN i + MaxEntries ELSE i + 1

\* The handlers of the item loop end in `continue`: whatever the outcome,
\* the loop goes on with the next entry.
NextIndex(i, outcome) == i + 1

\* One pass of `for entry in feed.entries`.
ProcessEntry(t) ==
  /\ t \in FeedThreads
  /\ pc[t] = "items"
  /\ idx[t] <= n_entries[t]
  /\ \E e \in FeedEntries, fault \in BOOLEAN :
       LET item == FeedItem(e, RSS_FEEDS[src[t]], now)
           outcome == IF SkipsEntry(e) THEN "skipped"
                      ELSE InsertOutcome(store, item, fault)
       IN /\ store' = StoreAfter(store, item, now, outcome)
          /\ new_items' = [new_items EXCEPT
                             ![t] = IF CountsAsNew(outcome)
                                    THEN Append(@, item.link) ELSE @]
          /\ item_log' = [item_log EXCEPT
                            ![t] = Append(@, [event |-> outcome,
                                              linked |-> HasLink(e)])]
          /\ idx' = [idx EXCEPT ![t] = NextIndex(@, outcome)]
  /\ UNCHANGED <<now, authenticated, scheduler, jobs, pc, src, n_entries,
                 messages, results, fetch_log, raised, invocations, call, daemon, sessions>>

\* The summary counts the entries the feed had, not the items committed.
FinishBatchCountsEntries(t) ==
  /\ t \in FeedThreads
  /\ pc[t] = "items"
  /\ idx[t] > n_entries[t]
  /\ Record(t, [i \in 1..n_entries[t] |-> i], FALSE)
  /\ n_entries' = [n_entries EXCEPT ![t] = 0]
  /\ idx' = [idx EXCEPT ![t] = 0]
  /\ new_items' = [new_items EXCEPT ![t] = <<>>]
  /\ item_log' = [item_log EXCEPT ![t] = <<>>]
  /\ sessions' = [sessions EXCEPT ![t] = CloseSession(@, "done")]
  /\ UNCHANGED <<store, now, authenticated, scheduler, jobs, messages,
                 fetch_log, raised, invocations, call, daemon>>

\* The loop is exhausted: session.close(), return new_items, and the
\* caller's results[source_name].
FinishBatch(t) ==
  /\ t \in FeedThreads
  /\ pc[t] = "items"
  /\ idx[t] > n_entries[t]
  /\ Record(t, new_items[t], FALSE)
  /\ n_entries' = [n_entries EXCEPT ![t] = 0]
  /\ idx' = [idx EXCEPT ![t] = 0]
  /\ new_items' = [new_items EXCEPT ![t] = <<>>]
  /\ item_log' = [item_log EXCEPT ![t] = <<>>]
  /\ sessions' = [sessions EXCEPT ![t] = CloseSession(@, "done")]
  /\ UNCHANGED <<store, now, authenticated, scheduler, jobs, messages,
                 fetch_log, raised, invocations, call, daemon>>

\* --------------------------------------------------------------- mail cycle
\* search_emails (an API error gives []), then get_db_session(), which is
\* outside every try: when it raises, the exception leaves the cycle.
MailSearch(t) ==
  /\ t \in MailThreads
  /\ pc[t] = "search"
  /\ \E found \in SearchResults, session_ok \in BOOLEAN :
       IF session_ok
       THEN /\ messages' = [messages EXCEPT ![t] = found]
            /\ idx' = [idx EXCEPT ![t] = 1]
            /\ pc' = [pc EXCEPT ![t] = "items"]
            /\ sessions' = [sessions EXCEPT ![t] = TRUE]
            /\ raised' = raised
       ELSE /\ pc' = [pc EXCEPT ![t] = "idle"]
            /\ raised' = [raised EXCEPT ![t] = TRUE]
            /\ UNCHANGED <<messages, idx, sessions>>
  /\ UNCHANGED <<store, now, authenticated, scheduler, jobs, src, n_entries, new_items, results, fetch_log, item_log, invocations, call, daemon>>

\* One pass of `for msg_summary in messages`.  details: whether
\* get_message_details returned the message (None on an API error); bs4:
\* whether BeautifulSoup can be imported; an exception out of
\* parse_email_content ends in the `except Exception` handler.
ProcessMessage(t) ==
  /\ t \in MailThreads
  /\ pc[t] = "items"
  /\ idx[t] <= Len(messages[t])
  /\ \E details \in BOOLEAN, fault \in BOOLEAN, bs4 \in BOOLEAN :
       LET message == Mailbox[messages[t][idx[t]]]
           item == MailItem(message, now, bs4)
           outcome == IF ~details THEN "no_details"
                      ELSE IF ParseRaises(message, bs4) THEN "error"
                      ELSE InsertOutcome(store, item, fault)
       IN /\ store' = StoreAfter(store, item, now, outcome)
          /\ new_items' = [new_items EXCEPT
                             ![t] = IF CountsAsNew(outcome)
                                    THEN Append(@, item.link) ELSE @]
          /\ item_log' = [item_log EXCEPT
                            ![t] = Append(@, [event |-> outcome, linked |-> TRUE])]
          /\ idx' = [idx EXCEPT ![t] = NextIndex(@, outcome)]
  /\ UNCHANGED <<now, authenticated, scheduler, jobs, pc, src, n_entries, messages, results, fetch_log, raised, invocations, call, daemon, sessions>>

\* The loop is exhausted: session.close(), return new_items.
FinishMail(t) ==
  /\ t \in MailThreads
  /\ pc[t] = "items"
  /\ idx[t] > Len(messages[t])
  /\ pc' = [pc EXCEPT ![t] = "returned"]
  /\ messages' = [messages EXCEPT ![t] = <<>>]
  /\ idx' = [idx EXCEPT ![t] = 0]
  /\ item_log' = [item_log EXCEPT ![t] = <<>>]
  /\ sessions' = [sessions EXCEPT ![t] = CloseSession(@, "done")]
  /\ UNCHANGED <<store, now, authenticated, scheduler, jobs, src, n_entries, new_items, results, fetch_log, raised, invocations, call, daemon>>

\* An exception leaves the item loop of a feed fetch: one that neither
\* handler of the loop takes, or one raised inside a handler.  `finally`
\* closes the session.  caught: the exception is an Exception, so the outer
\* handler of fetch_single_feed logs it and returns []; otherwise it leaves
\* fetch_single_feed and fetch_all_feeds, whose handlers take Exception only.
EscapesFeed(t) ==
  /\ t \in FeedThreads
  /\ pc[t] = "items"
  /\ idx[t] <= n_entries[t]
  /\ sessions' = [sessions EXCEPT ![t] = CloseSession(@, "escape")]
  /\ n_entries' = [n_entries EXCEPT ![t] = 0]
  /\ idx' = [idx EXCEPT ![t] = 0]
  /\ new_items' = [new_items EXCEPT ![t] = <<>>]
  /\ item_log' = [item_log EXCEPT ![t] = <<>>]
  /\ \E caught \in BOOLEAN :
       IF caught
       THEN /\ fetch_log' = [fetch_log EXCEPT ![t] = @ \cup {RSS_FEEDS[src[t]]}]
            /\ Record(t, <<>>, TRUE)
            /\ raised' = raised
       ELSE /\ pc' = [pc EXCEPT ![t] = "idle"]
            /\ raised' = [raised EXCEPT ![t] = TRUE]
            /\ results' = [results EXCEPT ![t] = <<>>]
            /\ fetch_log' = [fetch_log EXCEPT ![t] = {}]
            /\ src' = [src EXCEPT ![t] = 0]
  /\ UNCHANGED <<store, now, authenticated, scheduler, jobs, messages,
                 invocations, call, daemon>>

\* An exception leaves the item loop of a mail cycle.  `finally` closes the
\* session; fetch_newsletters has no handler around the loop, so the
\* exception leaves the cycle.
EscapesMail(t) ==
  /\ t \in MailThreads
  /\ pc[t] = "items"
  /\ idx[t] <= Len(messages[t])
  /\ sessions' = [sessions EXCEPT ![t] = CloseSession(@, "escape")]
  /\ pc' = [pc EXCEPT ![t] = "idle"]
  /\ raised' = [raised EXCEPT ![t] = TRUE]
  /\ messages' = [messages EXCEPT ![t] = <<>>]
  /\ idx' = [idx EXCEPT ![t] = 0]
  /\ new_items' = [new_items EXCEPT ![t] = <<>>]
  /\ item_log' = [item_log EXCEPT ![t] = <<>>]
  /\ UNCHANGED <<store, now, authenticated, scheduler, jobs, src, n_entries,
                 results, fetch_log, invocations, call, daemon>>

\* --------------------------------------------------------------------- Next
\* The process from construction: authentication, the schedulers' life
\* cycle, scheduled and manual cycles.  Cycles read the clock without it
\* moving; SpecStore is where it advances.
Next ==
  \/ \E k \in Kinds : StartScheduler(k)
  \/ \E k \in Kinds : StopScheduler(k)
  \/ \E k \in Kinds : Tick(k)
  \/ \E k \in Kinds : Manual(k)
  \/ Authenticate
  \/ \E t \in Threads : Collect(t)
  \/ \E t \in FeedThreads : FetchFails(t)
  \/ \E t \in FeedThreads : FetchParses(t)
  \/ \E t \in FeedThreads : ProcessEntry(t)
  \/ \E t \in FeedThreads : FinishBatch(t)
  \/ \E t \in MailThreads : MailSearch(t)
  \/ \E t \in MailThreads : ProcessMessage(t)
  \/ \E t \in MailThreads : FinishMail(t)

Spec == Init /\ [][Next]_vars

\* ------------------------------------------------------- the running daemon
\* run_daemon after start_schedulers: Gmail authenticated, both schedulers
\* running with their job, the initial fetches over with nothing found.
InitRunning ==
  /\ store = <<>>
  /\ now = Epoch
  /\ authenticated = TRUE
  /\ scheduler = [k \in Kinds |-> "running"]
  /\ jobs = [k \in Kinds |-> {JobId(k)}]
  /\ pc = [t \in Threads |-> "idle"]
  /\ src = [t \in FeedThreads |-> 0]
  /\ n_entries = [t \in FeedThreads |-> 0]
  /\ messages = [t \in MailThreads |-> <<>>]
  /\ idx = [t \in Threads |-> 0]
  /\ new_items = [t \in Threads |-> <<>>]
  /\ results = [t \in FeedThreads |-> <<>>]
  /\ fetch_log = [t \in FeedThreads |-> {}]
  /\ item_log = [t \in Threads |-> <<>>]
  /\ raised = [t \in Threads |-> FALSE]
  /\ invocations = 0
  /\ call = <<>>
  /\ daemon = InMainLoop
  /\ sessions = [t \in Threads |-> FALSE]

\* Scheduled and manual cycles of both kinds, interleaved, and the shutdown
\* of the schedulers.
NextRunning ==
  \/ \E k \in Kinds : StopScheduler(k)
  \/ \E k \in Kinds : Tick(k)
  \/ \E k \in Kinds : Manual(k)
  \/ \E t \in Threads : Collect(t)
  \/ \E t \in FeedThreads : FetchFails(t)
  \/ \E t \in FeedThreads : FetchParses(t)
  \/ \E t \in FeedThreads : ProcessEntry(t)
  \/ \E t \in FeedThreads : FinishBatch(t)
  \/ \E t \in MailThreads : MailSearch(t)
  \/ \E t \in MailThreads : ProcessMessage(t)
  \/ \E t \in MailThreads : FinishMail(t)

SpecRunning == InitRunning /\ [][NextRunning]_vars

\* The feed side alone: the interval job and fetch_feeds_now called from
\* the UI or the CLI, over the same RSS_FEEDS.
NextFeeds ==
  \/ Tick("rss")
  \/ Manual("rss")
  \/ \E t \in FeedThreads : Collect(t)
  \/ \E t \in FeedThreads : FetchFails(t)
  \/ \E t \in FeedThreads : FetchParses(t)
  \/ \E t \in FeedThreads : ProcessEntry(t)
  \/ \E t \in FeedThreads : FinishBatch(t)

SpecFeeds == InitRunning /\ [][NextFeeds]_vars

\* The next step of a thread's cycle, whichever it is.
Advance(t) ==
  \/ Collect(t)
  \/ FetchFails(t) \/ FetchParses(t) \/ ProcessEntry(t) \/ FinishBatch(t)
  \/ MailSearch(t) \/ ProcessMessage(t) \/ FinishMail(t)

\* ------------------------------------------------- the daemon left to run
\* The count of invocations bounds one stretch of the run; the daemon itself
\* runs on, stretch after stretch.
Rewind ==
  /\ invocations = MaxCycles
  /\ invocations' = 0
  /\ UNCHANGED <<store, now, authenticated, scheduler, jobs, pc, src, n_entries,
                 messages, idx, new_items, results, fetch_log, item_log, raised,
                 call, daemon, sessions>>

\* One kind's scheduler was started and runs: the feed scheduler of a
\* daemon without Gmail credentials, or the mail scheduler on its own.
InitLive ==
  /\ store = <<>>
  /\ now = Epoch
  /\ \E k \in Kinds :
       /\ authenticated = (k = "email")
       /\ scheduler = [j \in Kinds |-> IF j = k THEN "running" ELSE "None"]
       /\ jobs = [j \in Kinds |-> IF j = k THEN {JobId(j)} ELSE {}]
  /\ pc = [t \in Threads |-> "idle"]
  /\ src = [t \in FeedThreads |-> 0]
  /\ n_entries = [t \in FeedThreads |-> 0]
  /\ messages = [t \in MailThreads |-> <<>>]
  /\ idx = [t \in Threads |-> 0]
  /\ new_items = [t \in Threads |-> <<>>]
  /\ results = [t \in FeedThreads |-> <<>>]
  /\ fetch_log = [t \in FeedThreads |-> {}]
  /\ item_log = [t \in Threads |-> <<>>]
  /\ raised = [t \in Threads |-> FALSE]
  /\ invocations = 0
  /\ call = <<>>
  /\ daemon = InMainLoop
  /\ sessions = [t \in Threads |-> FALSE]

\* The interval job and nothing else: no manual fetch, no shutdown.
NextLive ==
  \/ \E k \in Kinds : Tick(k)
  \/ \E k \in Kinds : Advance(JobThread(k))
  \/ Rewind

\* The interval timers keep firing and a worker that has a run in hand
\* keeps going.
Fairness ==
  /\ \A k \in Kinds : WF_vars(Tick(k))
  /\ \A k \in Kinds : WF_vars(Advance(JobThread(k)))
  /\ WF_vars(Rewind)

SpecLive == InitLive /\ [][NextLive]_vars /\ Fairness

\* The interval jobs of both kinds with every way out of the item loop,
\* the one by an exception included.
NextSessions ==
  \/ \E k \in Kinds : Tick(k)
  \/ \E k \in Kinds : Advance(JobThread(k))
  \/ EscapesFeed(JobThread("rss"))
  \/ EscapesMail(JobThread("email"))
  \/ Rewind

SpecSessions == InitLive /\ [][NextSessions]_vars

\* ---------------------------------------------------- the Store on its own
\* One pass of the feed item loop for an entry that has a link, seen from
\* the Store: the candidate built, the commit, the handlers.
SubmitEntry ==
  \E e \in FeedEntries, i \in 1..NumFeeds, fault \in BOOLEAN :
    LET item == FeedItem(e, RSS_FEEDS[i], now)
        outcome == InsertOutcome(store, item, fault)
    IN /\ ~SkipsEntry(e)
       /\ store' = StoreAfter(store, item, now, outcome)
       /\ call' = [entry |-> e, item |-> item, at |-> now, fault |-> fault,
                   outcome |-> outcome]
       /\ UNCHANGED <<now, authenticated, scheduler, jobs, pc, src, n_entries,
                      messages, idx, new_items, results, fetch_log, item_log,
                      raised, invocations, daemon, sessions>>

\* One pass of the mail item loop for a message whose details arrived.
SubmitMessage ==
  \E id \in MessageIds, fault \in BOOLEAN, bs4 \in BOOLEAN :
    LET item == MailItem(Mailbox[id], now, bs4)
        outcome == IF ParseRaises(Mailbox[id], bs4) THEN "error"
                   ELSE InsertOutcome(store, item, fault)
    IN /\ store' = StoreAfter(store, item, now, outcome)
       /\ call' = [message |-> id, item |-> item, at |-> now, fault |-> fault,
                   outcome |-> outcome]
       /\ UNCHANGED <<now, authenticated, scheduler, jobs, pc, src, n_entries,
                      messages, idx, new_items, results, fetch_log, item_log,
                      raised, invocations, daemon, sessions>>

NextStore == SubmitEntry \/ SubmitMessage \/ TimePasses

SpecStore == Init /\ [][NextStore]_vars

\* --------------------------------------------------- the mailbox as a whole
\* One pass of the mail item loop for any message of the mailbox, from the
\* message to the table, while the table has fewer than MaxRows rows.
SubmitAnyMessage ==
  \E id \in MailboxIds, fault \in BOOLEAN, bs4 \in BOOLEAN :
    LET message == Mailbox[id]
        item == MailItem(message, now, bs4)
        raises == ParseRaises(message, bs4)
        outcome == IF raises THEN "error" ELSE InsertOutcome(store, item, fault)
        made == [message |-> id, bs4 |-> bs4, at |-> now, fault |-> fault,
                 outcome |-> outcome, raises |-> raises]
    IN /\ Len(store) < MaxRows
       /\ store' = StoreAfter(store, item, now, outcome)
       /\ call' = IF raises THEN made
                  ELSE [k \in DOMAIN made \cup {"item"} |->
                          IF k = "item" THEN item ELSE made[k]]
       /\ UNCHANGED <<now, authenticated, scheduler, jobs, pc, src, n_entries,
                      messages, idx, new_items, results, fetch_log, item_log,
                      raised, invocations, daemon, sessions>>

NextMail == SubmitAnyMessage \/ TimePasses

SpecMail == Init /\ [][NextMail]_vars

\* ------------------------------------------------------- reading the Store
\* datetime.combine(date, datetime.min.time()): the first second of the day.
CombineMin(d) == d * SecondsPerDay

\* datetime.combine(date, datetime.max.time()): the last second of the day.
CombineMax(d) == d * SecondsPerDay + (SecondsPerDay - 1)

\* Dates the date inputs hand over.  A date argument is <<>> for None and
\* <<d>> for day d.
QueryDates == {<<>>, <<1>>}

\* Source lists a caller hands over: the multiselect's choice, [] included.
QuerySources == SUBSET {RSS_FEEDS[1], "email"}

\* The filters of fetch_items on one row: each is added to the query only
\* when its argument is truthy.
Matches(row, selected_sources, start_date, end_date) ==
  /\ selected_sources # {} => row.source \in selected_sources
  /\ start_date # <<>> => row.published >= CombineMin(start_date[1])
  /\ end_date # <<>> => row.published <= CombineMax(end_date[1])

\* order_by(desc(Item.published)): every order of the rows in which no row
\* comes before a newer one; rows of one timestamp come in any order.
OrderByDesc(st, ids) ==
  {p \in [1..Cardinality(ids) -> ids] :
     /\ \A i, j \in DOMAIN p : i # j => p[i] # p[j]
     /\ \A i, j \in DOMAIN p : i < j => st[p[i]].published >= st[p[j]].published}

\* .limit(limit).all(): the first limit rows of the ordered result.
Limit(st, p, limit) ==
  [i \in 1..(IF limit < Len(p) THEN limit ELSE Len(p)) |-> st[p[i]]]

\* fetch_items(selected_sources, start_date, end_date, limit) on the table
\* as it stands; generate_feed_xml asks the same with no filter.
FetchItems ==
  \E selected_sources \in QuerySources, start_date \in QueryDates,
     end_date \in QueryDates, limit \in 1..MaxLimit :
    \E p \in OrderByDesc(store, {i \in DOMAIN store :
                 Matches(store[i], selected_sources, start_date, end_date)}) :
      /\ call' = [selected_sources |-> selected_sources,
                  start_date |-> start_date, end_date |-> end_date,
                  limit |-> limit, items |-> Limit(store, p, limit)]
      /\ UNCHANGED <<store, now, authenticated, scheduler, jobs, pc, src,
                     n_entries, messages, idx, new_items, results, fetch_log,
                     item_log, raised, invocations, daemon, sessions>>

NextQuery == SubmitEntry \/ SubmitMessage \/ FetchItems

SpecQuery == Init /\ [][NextQuery]_vars

\* ------------------------------------------------- links in the HTML body
\* Text here is a sequence of pieces, each a run of characters that no
\* search of the code cuts in two; its length is the sum of the lengths.
RECURSIVE CharLen(_)
CharLen(s) == IF s = <<>> THEN 0 ELSE Len(Head(s)) + CharLen(Tail(s))

\* needle in s
Contains(s, needle) ==
  \E i \in 1..(Len(s) - Len(needle) + 1) : SubSeq(s, i, i + Len(needle) - 1) = needle

\* s.startswith(p)
StartsWith(s, p) == Len(s) >= Len(p) /\ SubSeq(s, 1, Len(p)) = p

\* s.lower()
Lower(s) ==
  [i \in DOMAIN s |-> CASE s[i] = "Read" -> "read"
                        [] s[i] = "Unsubscribe" -> "unsubscribe"
                        [] OTHER -> s[i]]

\* The opaque tail of a redirector URL.
LongPath == "xxxxxxxxxxxxxxxxxxxxxxxxxxxxxxxxxxxxxxxxxxxxxxxxxxxxxxxxxxxxxxxxxxxxxxxxxxxxxxxxxxxxxxxxxxxxxxxxxxxxxxxxxxxxxxxxxxxxxxxx"

\* Hosts of link targets in newsletters.
Hosts ==
  {<<"link", ".", "mail", ".", "beehiiv", ".", "com">>,
   <<"mail", ".", "beehiiv", ".", "com">>,
   <<"click", ".", "mail", "chimp", ".", "com">>,
   <<"mail", "chimp", ".", "com">>,
   <<"em", ".", "sendgrid", ".", "net">>,
   <<"u1", ".", "ct", ".", "sendgrid", ".", "net">>,
   <<"r20", ".", "constantcontact", ".", "com">>,
   <<"click", ".", "example", ".", "com">>,
   <<"mail", ".", "example", ".", "com">>,
   <<"www", ".", "news", ".", "example", ".", "com">>,
   <<"example", ".", "com">>}

Schemes == {"https://", "http://", "mailto:"}

\* Targets: a short one and a redirector of more than 100 characters.
Urls ==
  {<<scheme>> \o host \o path :
     scheme \in Schemes, host \in Hosts,
     path \in {<<"/", "a">>, <<"/", "r", "/", LongPath>>}}

\* Visible texts of a link.
LinkTexts ==
  {<<"Read", " ", "the", " ", "report">>, <<"Go">>, <<>>,
   <<"Unsubscribe">>}

tracking_prefixes ==
  <<"mail", "link", "click", "track", "go", "em", "newsletter", "news">>

\* The canonical name of the newsletter service a domain names, <<>> when
\* it names none: the if/elif chain of _extract_domain.
ServiceName(domain) ==
  IF Contains(domain, <<"beehiiv">>) THEN <<"beehiiv", ".", "com">>
  ELSE IF Contains(domain, <<"mail", "chimp">>) THEN <<"mail", "chimp", ".", "com">>
  ELSE IF Contains(domain, <<"constantcontact">>) THEN <<"constantcontact", ".", "com">>
  ELSE IF Contains(domain, <<"sendgrid">>) THEN <<"sendgrid", ".", "com">>
  ELSE <<>>

\* group(1) of re.search(r"https?://(?:www\.)?([^/]+)", url): what stands
\* between the scheme, with a www. after it, and the next slash; <<>> when
\* the pattern matches nowhere.
HostMatch(url) ==
  IF \E i \in DOMAIN url : url[i] \in {"https://", "http://"}
  THEN LET i == CHOOSE i \in DOMAIN url :
                  /\ url[i] \in {"https://", "http://"}
                  /\ \A j \in 1..(i - 1) : url[j] \notin {"https://", "http://"}
           rest == SubSeq(url, i + 1, Len(url))
           tail == IF StartsWith(rest, <<"www", ".">>) /\ Len(rest) > 2
                      /\ rest[3] # "/"
                   THEN SubSeq(rest, 3, Len(rest)) ELSE rest
           stop == IF \E j \in DOMAIN tail : tail[j] = "/"
                   THEN (CHOOSE j \in DOMAIN tail :
                           tail[j] = "/" /\ \A k \in 1..(j - 1) : tail[k] # "/") - 1
                   ELSE Len(tail)
       IN SubSeq(tail, 1, stop)
  ELSE <<>>

\* _extract_domain: the first tracking prefix the domain starts with is
\* cut off and the rest returned at once; only a domain with no such
\* prefix is looked up among the newsletter services.
ExtractDomain(url) ==
  LET domain == HostMatch(url)
      hits == {i \in DOMAIN tracking_prefixes :
                 /\ StartsWith(domain, <<tracking_prefixes[i], ".">>)
                 /\ Len(domain) > 2}
  IN IF domain = <<>> THEN <<"Link">>
     ELSE IF hits # {} THEN SubSeq(domain, 3, Len(domain))
     ELSE IF ServiceName(domain) # <<>> THEN ServiceName(domain)
     ELSE domain

\* What the loop over the <a> elements leaves in place of one link; <<>>
\* when the link is decomposed.
ReplaceLink(href, text) ==
  IF \E skip \in {<<"track", "ing">>, <<"pixel">>, <<"beacon">>, <<"unsubscribe">>} :
       Contains(Lower(href), skip)
  THEN <<>>
  ELSE IF \E skip \in {<<"view", " ", "in", " ", "browser">>,
                       <<"view", " ", "image">>, <<"unsubscribe">>} :
            Contains(Lower(text), skip)
  THEN <<>>
  ELSE IF CharLen(href) > 100
          /\ (Contains(href, <<"beehiiv">>) \/ Contains(href, <<"mail">>))
  THEN IF text # <<>> /\ CharLen(text) > 3
       THEN text \o <<" ", "[">> \o ExtractDomain(href) \o <<"]">>
       ELSE <<"[">> \o ExtractDomain(href) \o <<"]">>
  ELSE text

\* The phrases a line is dropped for.
Cruft ==
  {<<"view", " ", "in", " ", "browser">>, <<"view", " ", "image">>,
   <<"follow", " ", "image", " ", "link">>, <<"unsubscribe">>,
   <<"forwarded", " ", "this", " ", "email">>,
   <<"you", " ", "received", " ", "this", " ", "email">>, <<"caption:">>,
   <<"click", " ", "here">>, <<"read", " ", "more">>,
   <<"beehiiv", ".", "com">>}

\* The number of /, =, & and ? in a line.
UrlChars(line) == Cardinality({i \in DOMAIN line : line[i] \in {"/", "=", "&", "?"}})

RECURSIVE Words(_)
\* line.split(), each word then without the beehiiv ones: the words of the
\* link lines here hold no long URL and no parenthesis.
Words(line) ==
  IF line = <<>> THEN <<>>
  ELSE LET stop == IF \E j \in DOMAIN line : line[j] = " "
                   THEN (CHOOSE j \in DOMAIN line :
                           line[j] = " " /\ \A k \in 1..(j - 1) : line[k] # " ")
                   ELSE Len(line) + 1
           word == SubSeq(line, 1, stop - 1)
           rest == SubSeq(line, stop + 1, Len(line))
       IN (IF word = <<>> \/ Contains(word, <<"beehiiv", ".", "com">>)
           THEN <<>> ELSE <<word>>) \o Words(rest)

RECURSIVE JoinWords(_)
\* " ".join(cleaned_words)
JoinWords(words) ==
  IF words = <<>> THEN <<>>
  ELSE IF Len(words) = 1 THEN words[1]
  ELSE words[1] \o <<" ">> \o JoinWords(Tail(words))

\* The line without its square brackets.
Unbracketed(line) ==
  LET keep == {i \in DOMAIN line : line[i] \notin {"[", "]"}}
      F[i \in 0..Len(line)] ==
        IF i = 0 THEN <<>>
        ELSE IF i \in keep THEN Append(F[i - 1], line[i]) ELSE F[i - 1]
  IN F[Len(line)]

\* The clean-up of one line of the text: <<>> when the line is dropped.
CleanLine(line) ==
  LET cleaned == JoinWords(Words(line))
  IN IF line = <<>> THEN <<>>
     ELSE IF \E skip \in Cruft : Contains(Lower(line), skip) THEN <<>>
     ELSE IF StartsWith(line, <<"https://">>) /\ CharLen(line) > 100 THEN <<>>
     ELSE IF (Contains(line, <<"beehiiv", ".", "com">>) \/ Contains(line, <<"mail", ".">>))
             /\ CharLen(line) > 150 THEN <<>>
     ELSE IF UrlChars(line) > 10 THEN <<>>
     ELSE IF CharLen(Unbracketed(cleaned)) > 10 THEN cleaned
     ELSE <<>>

\* _html_to_text of <p><a href=...>text</a></p>: without bs4 the tags are
\* cut out and the text is left; with it the link is replaced and the line
\* cleaned.
LinkToText(href, text, bs4) ==
  IF ~bs4 THEN text ELSE CleanLine(ReplaceLink(href, text))

\* A newsletter body with one link goes through the Normalizer.
RenderLink ==
  \E href \in Urls, text \in LinkTexts, bs4 \in BOOLEAN :
    /\ call' = [href |-> href, text |-> text, bs4 |-> bs4,
                domain |-> ExtractDomain(href),
                output |-> LinkToText(href, text, bs4)]
    /\ UNCHANGED <<store, now, authenticated, scheduler, jobs, pc, src,
                   n_entries, messages, idx, new_items, results, fetch_log,
                   item_log, raised, invocations, daemon, sessions>>

NextLinks == RenderLink

SpecLinks == Init /\ [][NextLinks]_vars

\* ------------------------------------------------------------- run_daemon
\* The variables the main thread of run_daemon leaves alone.
CyclesUnchanged ==
  UNCHANGED <<store, now, scheduler, jobs, pc, src, n_entries, messages, idx,
              new_items, results, fetch_log, item_log, raised, invocations, call,
              sessions>>

\* initialize() and the two signal.signal calls.  db_ok: init_database()
\* went through (else run_daemon returns False); gmail: what
\* authenticate_gmail() came back with.
Initialize ==
  /\ daemon.pc = "init"
  /\ \E db_ok \in BOOLEAN, gmail \in BOOLEAN :
       IF db_ok
       THEN /\ authenticated' = gmail
            /\ daemon' = [daemon EXCEPT !.pc = "start_rss"]
       ELSE /\ authenticated' = authenticated
            /\ daemon' = [daemon EXCEPT !.pc = "failed"]
  /\ CyclesUnchanged

\* signal_handler runs in the main thread, between two of its steps, any
\* time from the installation of the handlers to the return of run_daemon.
Signal ==
  /\ daemon.pc \in {"start_rss", "start_email", "set_running", "loop", "sleep",
                   "stopping"}
  /\ ~daemon.signalled
  /\ daemon' = [daemon EXCEPT !.running = FALSE, !.signalled = TRUE]
  /\ authenticated' = authenticated
  /\ CyclesUnchanged

\* start_schedulers calls start_rss_scheduler(), then, with Gmail
\* authenticated, start_email_scheduler(): each runs its initial cycle in
\* the main thread.
CallStart(k) ==
  /\ daemon.pc = "start_" \o k
  /\ scheduler[k] = "None"
  /\ k = "email" => authenticated
  /\ StartScheduler(k)

\* The call of start_schedulers for kind k is over: the scheduler was
\* started and its initial cycle has returned (or has raised into the
\* handler of start_schedulers), or Gmail is not authenticated.
StartReturns(k) ==
  /\ daemon.pc = "start_" \o k
  /\ \/ scheduler[k] = "running" /\ pc[StartThread(k)] = "idle"
     \/ k = "email" /\ ~authenticated
  /\ daemon' = [daemon EXCEPT !.pc = IF k = "rss" THEN "start_email"
                                     ELSE "set_running"]
  /\ authenticated' = authenticated
  /\ CyclesUnchanged

\* self.running = True, after start_schedulers.
SetRunning ==
  /\ daemon.pc = "set_running"
  /\ daemon' = [daemon EXCEPT !.running = TRUE, !.pc = "loop"]
  /\ authenticated' = authenticated
  /\ CyclesUnchanged

\* while self.running: the flag is read; when it is True the body is
\* entered, else the loop is left.
MainLoop ==
  /\ daemon.pc = "loop"
  /\ daemon' = [daemon EXCEPT !.pc = IF daemon.running THEN "sleep" ELSE "stopping"]
  /\ authenticated' = authenticated
  /\ CyclesUnchanged

\* The body of the loop: time.sleep(10) and generate_rss_feed(), whose
\* exceptions are caught; then the flag is read again.
LoopBody ==
  /\ daemon.pc = "sleep"
  /\ daemon' = [daemon EXCEPT !.pc = "loop"]
  /\ authenticated' = authenticated
  /\ CyclesUnchanged

\* finally: stop_schedulers(), then return True.
StopSchedulers ==
  /\ daemon.pc = "stopping"
  /\ scheduler' = [k \in Kinds |->
                     IF scheduler[k] = "running" /\ (k = "rss" \/ authenticated)
                     THEN "shutdown" ELSE scheduler[k]]
  /\ daemon' = [daemon EXCEPT !.pc = "returned"]
  /\ UNCHANGED <<store, now, authenticated, jobs, pc, src, n_entries, messages,
                 idx, new_items, results, fetch_log, item_log, raised,
                 invocations, call, sessions>>

\* The main thread of run_daemon and the initial cycles it runs.  The
\* interval jobs are left out: what a job does has no part in what the
\* main thread does.
NextDaemon ==
  \/ Initialize
  \/ Signal
  \/ \E k \in Kinds : CallStart(k)
  \/ \E k \in Kinds : StartReturns(k)
  \/ SetRunning
  \/ MainLoop
  \/ LoopBody
  \/ StopSchedulers
  \/ \E k \in Kinds : Advance(StartThread(k))

\* The main thread keeps running, whatever it has in hand; a signal may
\* come or not.
FairnessDaemon ==
  /\ WF_vars(Initialize)
  /\ \A k \in Kinds : WF_vars(CallStart(k)) /\ WF_vars(StartReturns(k))
  /\ WF_vars(SetRunning) /\ WF_vars(MainLoop) /\ WF_vars(LoopBody)
  /\ WF_vars(StopSchedulers)
  /\ \A k \in Kinds : WF_vars(Advance(StartThread(k)))

SpecDaemon == Init /\ [][NextDaemon]_vars /\ FairnessDaemon

\* =================================================================== claims

\* C1: for any sequence of insert attempts, an attempt whose link is already
\* in the table (and whose commit meets no other fault) comes back as a
\* duplicate, leaves exactly one row with that link, and leaves every field
\* of every row, the first record of that link included, as it was.
DuplicateRejected ==
  [][ now' = now =>
        /\ \A i \in DOMAIN store : i \in DOMAIN store' /\ store'[i] = store[i]
        /\ \A i \in DOMAIN store :
             (call'.item.link = store[i].link /\ ~call'.fault) =>
                /\ call'.outcome = "duplicate"
                /\ store' = store
                /\ Cardinality({j \in DOMAIN store' :
                                  store'[j].link = store[i].link}) = 1 ]_vars

\* A link is submitted again with other fields (another title) after other
\* rows were added, and is turned away.
DuplicateRejectedWitness ==
  /\ call # <<>>
  /\ call.outcome = "duplicate"
  /\ Len(store) >= 2
  /\ \E i \in DOMAIN store : /\ store[i].link = call.item.link
                              /\ store[i].title # call.item.title
                              /\ store[i].published # call.item.published

\* An entry's timestamp of the given kind is there (the attribute exists and
\* is not None).
Present(e, k) == k \in DOMAIN e /\ e[k] > 0

\* C8: a feed candidate's published is the entry's published timestamp when
\* present, else its updated timestamp when present, else the time of the
\* fetch; the row committed for it carries that value, and no feed row is
\* without a published timestamp.
PublishedFallback ==
  /\ (call # <<>> /\ "entry" \in DOMAIN call) =>
       LET e == call.entry
           expected == IF Present(e, "published_parsed") THEN e.published_parsed
                       ELSE IF Present(e, "updated_parsed") THEN e.updated_parsed
                       ELSE call.at
       IN /\ call.item.published = expected
          /\ call.outcome = "inserted" => store[Len(store)].published = expected
  /\ \A i \in DOMAIN store :
       store[i].source # "email" => store[i].published \in 1..MaxClock

\* An entry with neither timestamp was committed after the clock had moved,
\* while a row from an entry with both timestamps is in the table.
PublishedFallbackWitness ==
  /\ call # <<>> /\ "entry" \in DOMAIN call
  /\ ~Present(call.entry, "published_parsed")
  /\ ~Present(call.entry, "updated_parsed")
  /\ call.outcome = "inserted"
  /\ call.at > Epoch
  /\ store[Len(store)].published = call.at
  /\ \E i \in DOMAIN store : store[i].published = 1 /\ store[i].source # "email"

\* C2: in every reachable state, whatever the interleaving of feed and mail
\* cycles, no two rows of the items table carry the same link.
UniqueLinks ==
  \A i, j \in DOMAIN store : i # j => store[i].link # store[j].link

\* A feed cycle and a mail cycle are in their item loops at once, the table
\* holds a feed row and a mail row, and a resubmitted link was turned away.
UniqueLinksWitness ==
  /\ \E t \in FeedThreads : pc[t] = "items" /\ item_log[t] # <<>>
                             /\ item_log[t][Len(item_log[t])].event = "duplicate"
  /\ \E t \in MailThreads : pc[t] = "items" /\ new_items[t] # <<>>
  /\ \E i, j \in DOMAIN store : store[i].source = "email" /\ store[j].source # "email"

\* total_new_items of a cycle as far as it has come: the sources recorded in
\* results and the batch in hand.
RECURSIVE SumCounts(_, _)
SumCounts(r, i) ==
  IF i = 0 THEN 0
  ELSE (IF RSS_FEEDS[i] \in DOMAIN r THEN r[RSS_FEEDS[i]].new_items ELSE 0)
         + SumCounts(r, i - 1)

ReportedBy(t) ==
  Len(new_items[t]) + (IF t \in FeedThreads THEN SumCounts(results[t], NumFeeds) ELSE 0)

ThreadSeq ==
  <<StartThread("rss"), JobThread("rss"), ManualThread("rss"),
    StartThread("email"), JobThread("email"), ManualThread("email")>>

RECURSIVE Reported(_)
\* The counts of the first n threads together.
Reported(n) == IF n = 0 THEN 0 ELSE ReportedBy(ThreadSeq[n]) + Reported(n - 1)

RECURSIVE InHand(_)
\* The new items of the first n threads' batches, one after the other.
InHand(n) == IF n = 0 THEN <<>> ELSE InHand(n - 1) \o new_items[ThreadSeq[n]]

FailureIsolated ==
  \A t \in FeedThreads :
    /\ \A n \in fetch_log[t] : n \in DOMAIN results[t] /\ results[t][n].new_items = 0
    /\ pc[t] \in {"fetch", "items"} =>
         /\ src[t] \in 1..NumFeeds
         /\ DOMAIN results[t] = {RSS_FEEDS[i] : i \in 1..(src[t] - 1)}
    /\ pc[t] = "returned" => DOMAIN results[t] = Range(RSS_FEEDS)

\* A cycle returned: its first source failed, a later one had an item
\* committed.
FailureIsolatedWitness ==
  \E t \in FeedThreads :
    /\ pc[t] = "returned"
    /\ fetch_log[t] = {RSS_FEEDS[1]}
    /\ results[t][RSS_FEEDS[NumFeeds]].new_items > 0
    /\ \E i \in DOMAIN store : store[i].source = RSS_FEEDS[NumFeeds]

\* C5: when exactly one source's fetch failed in a cycle, the summary the
\* cycle returns carries an error for that source and for no other, and a
\* new-item count for the others.
ErrorOnlyForFailed ==
  \A t \in FeedThreads :
    (pc[t] = "returned" /\ Cardinality(fetch_log[t]) = 1) =>
       \A n \in DOMAIN results[t] :
         /\ n \in fetch_log[t] <=> "error" \in DOMAIN results[t][n]
         /\ n \notin fetch_log[t] => "new_items" \in DOMAIN results[t][n]

\* Length of the batch a thread is working through.
BatchLen(t) == IF t \in FeedThreads THEN n_entries[t] ELSE Len(messages[t])

\* C6: in a batch every candidate is attempted whatever became of the ones
\* before it: the loop has dealt with exactly the items before its position,
\* it ends only past the last item, and every item counted as new is in the
\* table.
BatchNeverAborted ==
  \A t \in Threads :
    pc[t] = "items" =>
      /\ idx[t] \in 1..(BatchLen(t) + 1)
      /\ Len(item_log[t]) = idx[t] - 1
      /\ Cardinality({i \in DOMAIN item_log[t] : item_log[t][i].event = "inserted"})
           = Len(new_items[t])
      /\ Range(new_items[t]) \subseteq Links(store)

\* Two batches are exhausted: in one the first item was a duplicate, in the
\* other the first item met an error, and in both the next was committed.
BatchNeverAbortedWitness ==
  \E t, u \in Threads :
    /\ pc[t] = "items" /\ idx[t] > BatchLen(t)
    /\ pc[u] = "items" /\ idx[u] > BatchLen(u)
    /\ Len(item_log[t]) = 2 /\ Len(item_log[u]) = 2
    /\ item_log[t][1].event = "duplicate" /\ item_log[t][2].event = "inserted"
    /\ item_log[u][1].event = "error" /\ item_log[u][2].event = "inserted"

\* C7: of the N entries of a fetched feed, the M without a link (absent or
\* empty) are the ones that make no insert attempt: when the batch is
\* through, N - M attempts were made, none for a link-less entry, and no row
\* has an empty link.
LinklessDiscarded ==
  /\ \A t \in FeedThreads :
       pc[t] = "items" =>
         LET log == item_log[t]
             attempts == {i \in DOMAIN log : log[i].event # "skipped"}
             linkless == {i \in DOMAIN log : ~log[i].linked}
         IN /\ attempts \cap linkless = {}
            /\ idx[t] > n_entries[t] =>
                 Cardinality(attempts) = n_entries[t] - Cardinality(linkless)
  /\ \A i \in DOMAIN store : store[i].link # ""

\* A feed of two entries, one of them link-less, is through: one attempt
\* was made and it was committed.
LinklessDiscardedWitness ==
  \E t \in FeedThreads :
    /\ pc[t] = "items" /\ n_entries[t] = 2 /\ idx[t] > n_entries[t]
    /\ ~item_log[t][1].linked /\ item_log[t][1].event = "skipped"
    /\ item_log[t][2].linked /\ item_log[t][2].event = "inserted"

\* C9: the step that starts a kind's scheduler (mail: only when
\* authenticated) registers the one interval job and begins exactly one
\* invocation of the cycle, in the caller's thread; the caller's thread
\* begins a cycle in no other step; the job's worker begins a cycle only
\* while the scheduler runs with the job registered, and whenever it does
\* and the worker is free, a tick can begin one.
StartRegistersAndInvokes ==
  /\ [][ \A k \in Kinds :
           /\ (scheduler[k] # "running" /\ scheduler'[k] = "running") =>
                /\ k = "email" => authenticated
                /\ jobs'[k] = {JobId(k)}
                /\ pc[StartThread(k)] = "idle" /\ pc'[StartThread(k)] # "idle"
                /\ pc'[JobThread(k)] = pc[JobThread(k)]
                /\ invocations' = invocations + 1
           /\ (pc[StartThread(k)] = "idle" /\ pc'[StartThread(k)] # "idle") =>
                scheduler[k] # "running" /\ scheduler'[k] = "running"
           /\ (pc[JobThread(k)] = "idle" /\ pc'[JobThread(k)] # "idle") =>
                /\ scheduler[k] = "running" /\ JobId(k) \in jobs[k]
                /\ invocations' = invocations + 1 ]_vars
  /\ [](\A k \in Kinds :
          (scheduler[k] = "running" /\ pc[JobThread(k)] = "idle"
             /\ invocations < MaxCycles) => ENABLED Tick(k))

\* After authentication the mail scheduler was started, the immediate
\* invocation is over, and a tick has the worker in a cycle.
StartRegistersAndInvokesWitness ==
  /\ scheduler["email"] = "running"
  /\ jobs["email"] = {JobId("email")}
  /\ pc[StartThread("email")] = "idle"
  /\ pc[JobThread("email")] \in {"search", "items"}
  /\ invocations = 2

\* C10: the step in which a scheduled invocation leaves with an exception
\* changes neither the scheduler nor its job, and with the scheduler running
\* the next tick can begin the cycle again although the last run raised.
ScheduleSurvivesException ==
  /\ [][ \A k \in Kinds :
           (~raised[JobThread(k)] /\ raised'[JobThread(k)]) =>
              /\ scheduler'[k] = scheduler[k] /\ jobs'[k] = jobs[k]
              /\ pc'[JobThread(k)] = "idle" ]_vars
  /\ [](\A k \in Kinds :
          (raised[JobThread(k)] /\ scheduler[k] = "running"
             /\ pc[JobThread(k)] = "idle" /\ invocations < MaxCycles) =>
                ENABLED Tick(k))

\* The mail job's last run raised, and the next tick has begun another one.
ScheduleSurvivesExceptionWitness ==
  /\ raised[JobThread("email")]
  /\ pc[JobThread("email")] = "search"
  /\ scheduler["email"] = "running"


\* C11: once a kind's scheduler is not running, its worker begins no new
\* invocation; the stop itself leaves the worker's run where it was (its
\* position, its batch, the table), and a run that was in flight can take
\* its next step, item by item, through to its return.
StopLetsRunFinish ==
  /\ [][ \A k \in Kinds :
           /\ (scheduler[k] # "running" /\ pc[JobThread(k)] = "idle") =>
                pc'[JobThread(k)] = "idle"
           /\ (scheduler[k] = "running" /\ scheduler'[k] = "shutdown") =>
                /\ pc'[JobThread(k)] = pc[JobThread(k)]
                /\ idx' = idx /\ new_items' = new_items
                /\ item_log' = item_log /\ store' = store ]_vars
  /\ [](\A k \in Kinds :
          (scheduler[k] = "shutdown" /\ pc[JobThread(k)] # "idle") =>
             ENABLED Advance(JobThread(k)))

\* The feed scheduler is shut down while its worker is in the middle of a
\* batch, one item committed and one still to come.
StopLetsRunFinishWitness ==
  LET t == JobThread("rss")
  IN /\ scheduler["rss"] = "shutdown"
     /\ pc[t] = "items"
     /\ idx[t] = 2 /\ n_entries[t] = 2
     /\ new_items[t] # <<>>


\* C12: a scheduler that was started and is not stopped has its cycle begun
\* again and again without end, under timers that keep firing, whatever
\* fetches failed, items failed or runs raised before.
CyclesForever ==
  \A k \in Kinds :
    []<>(scheduler[k] # "running") \/ []<><<Tick(k)>>_vars

\* The mail job is at the start of a new batch although its last run
\* raised, and rows are in the table from a run before that.
CyclesForeverWitness ==
  /\ scheduler["email"] = "running"
  /\ raised[JobThread("email")]
  /\ pc[JobThread("email")] = "items"
  /\ idx[JobThread("email")] = 1
  /\ Len(store) = 2


\* C13: the candidate built from a feed entry, and the row committed for it,
\* carry the entry's link as it is; those built from a mail message carry
\* local://email/<message id>; every row's link is of one of the two kinds,
\* and two different messages never get the same link.
IdentityKeys ==
  /\ call # <<>> =>
       LET key == IF "entry" \in DOMAIN call THEN call.entry.link
                  ELSE "local://email/" \o call.message
       IN /\ call.item.link = key
          /\ call.outcome = "inserted" => store[Len(store)].link = key
  /\ \A i \in DOMAIN store :
       IF store[i].source = "email"
       THEN \E id \in MessageIds : store[i].link = "local://email/" \o id
       ELSE \E e \in FeedEntries : HasLink(e) /\ store[i].link = e.link
  /\ \A i, j \in DOMAIN store :
       (store[i].source = "email" /\ store[j].source = "email" /\ i # j) =>
          store[i].link # store[j].link

\* Both messages and a feed entry are in the table, the second message just
\* committed.
IdentityKeysWitness ==
  /\ call # <<>> /\ "message" \in DOMAIN call /\ call.outcome = "inserted"
  /\ Cardinality({i \in DOMAIN store : store[i].source = "email"}) = 2
  /\ \E i \in DOMAIN store : store[i].link = "https://example.com/b"


\* C14: no step of any cycle, whatever its outcome and whichever batch it
\* belongs to, removes a committed row or changes one of its fields,
\* created_at included: the table only grows at its end.
RowsNeverChange ==
  [][ /\ Len(store') >= Len(store)
      /\ \A i \in DOMAIN store : store'[i] = store[i] ]_vars

\* A batch that committed an item and then met an error on the next one,
\* while a concurrent batch was turned away with a duplicate.
RowsNeverChangeWitness ==
  \E t, u \in Threads :
    /\ t # u
    /\ pc[t] = "items" /\ Len(item_log[t]) = 2
    /\ item_log[t][1].event = "inserted" /\ item_log[t][2].event = "error"
    /\ pc[u] = "items" /\ item_log[u] # <<>>
    /\ item_log[u][Len(item_log[u])].event = "duplicate"
    /\ Len(store) = 1


\* C15: every row of the table has a non-empty title, whatever title or
\* subject the entry or message carried.
TitleNeverEmpty ==
  \A i \in DOMAIN store : store[i].title # ""

MailPublishedFallback ==
  (call # <<>> /\ "message" \in DOMAIN call) =>
     LET m == Mailbox[call.message]
         headers == m.payload.headers
         parsable == "Date" \in DOMAIN headers
                       /\ ParseDateToDatetime(headers.Date) # 0
         expected == IF parsable THEN ParseDateToDatetime(headers.Date)
                     ELSE IF "internalDate" \in DOMAIN m
                     THEN m.internalDate \div 1000
                     ELSE call.at
     IN IF call.raises
        THEN HtmlOf(m.payload).rejected
        ELSE /\ call.item.published = expected
             /\ call.outcome = "inserted" =>
                  store[Len(store)].published = expected

\* A message with an unparsable Date and no internalDate was committed
\* after the clock had moved, while the row of a message without a Date
\* header, dated by its internalDate, is in the table.
MailPublishedFallbackWitness ==
  /\ call # <<>> /\ call.message = "m2" /\ call.outcome = "inserted"
  /\ call.at > Epoch
  /\ store[Len(store)].published = call.at
  /\ \E i \in DOMAIN store :
       /\ store[i].link = "local://email/m3"
       /\ store[i].published = Mailbox["m3"].internalDate \div 1000


RECURSIVE PlainAnywhere(_)
\* The text of the text/plain parts of a list of parts and of the parts
\* nested in them, in document order.
PlainAnywhere(parts) ==
  IF parts = <<>> THEN ""
  ELSE LET part == Head(parts)
       IN (IF "parts" \in DOMAIN part THEN PlainAnywhere(part.parts)
           ELSE IF part.mimeType = "text/plain" THEN Get(part.body, "data", "")
           ELSE "")
            \o PlainAnywhere(Tail(parts))

RECURSIVE HtmlAnywhere(_)
\* Likewise the markup of the text/html parts.
HtmlAnywhere(parts) ==
  IF parts = <<>> THEN EmptyHtml
  ELSE LET part == Head(parts)
       IN HtmlConcat(IF "parts" \in DOMAIN part THEN HtmlAnywhere(part.parts)
                     ELSE IF part.mimeType = "text/html"
                     THEN Get(part.body, "data", EmptyHtml)
                     ELSE EmptyHtml,
                     HtmlAnywhere(Tail(parts)))

\* C18: the body of a mail candidate is the text of all plain-text parts
\* of the message, wherever in the message they are, when there is any;
\* else the Normalizer's text for all its HTML parts together; else empty.
BodyPrefersPlain ==
  (call # <<>> /\ "message" \in DOMAIN call /\ ~call.raises) =>
     LET payload == Mailbox[call.message].payload
         plain == PlainAnywhere(<<payload>>)
         html == HtmlAnywhere(<<payload>>)
     IN call.item.summary =
          (IF plain # "" THEN plain
           ELSE IF html.nodes # <<>> THEN HtmlToText(html, call.bs4)
           ELSE "")


\* C20: the Normalizer raises on no input: every message gives a candidate,
\* and for one whose body comes from HTML that the structured parse fails
\* on, the body is what the bare tag-stripping gives and the candidate
\* goes to the table like any other.
NormalizerNeverRaises ==
  (call # <<>> /\ "message" \in DOMAIN call) =>
     /\ ~call.raises
     /\ LET payload == Mailbox[call.message].payload
            html == HtmlOf(payload)
        IN (PlainOf(payload) = "" /\ html.nodes # <<>> /\ html.rejected) =>
              /\ call.item.summary = StripTags(html)
              /\ call.outcome \in {"inserted", "duplicate"} \/ call.fault


\* What a query's answer owes its arguments: at most limit rows, each of a
\* source of the set and published within the days of the range (a bound
\* that is None bounds nothing), newest first, and no row of the table that
\* fits the arguments and was left out is newer than a returned one.
Answers(q, st, in_set(_, _)) ==
  LET fits(row) == /\ in_set(row.source, q.selected_sources)
                   /\ q.start_date # <<>> =>
                        row.published >= q.start_date[1] * SecondsPerDay
                   /\ q.end_date # <<>> =>
                        row.published < (q.end_date[1] + 1) * SecondsPerDay
  IN /\ Len(q.items) <= q.limit
     /\ \A i \in DOMAIN q.items : fits(q.items[i])
     /\ \A i \in DOMAIN q.items : \E j \in DOMAIN st : st[j] = q.items[i]
     /\ \A i, j \in DOMAIN q.items :
          i < j => q.items[i].published >= q.items[j].published
     /\ \A j \in DOMAIN st :
          (fits(st[j]) /\ \A i \in DOMAIN q.items : q.items[i] # st[j]) =>
             /\ Len(q.items) = q.limit
             /\ \A i \in DOMAIN q.items : q.items[i].published >= st[j].published

InSet(source, sources) == source \in sources

\* C19: a query by source set, date range and limit returns at most limit
\* rows, each with its source in the set and its published timestamp in
\* the range, newest first, and no matching row left out is newer than a
\* returned one.
QueryAnswersFilter ==
  (call # <<>> /\ "items" \in DOMAIN call) => Answers(call, store, InSet)


InSetIfAny(source, sources) == sources # {} => source \in sources

\* The same with an empty source list read as every source.
QueryAnswersChosenFilter ==
  (call # <<>> /\ "items" \in DOMAIN call) => Answers(call, store, InSetIfAny)

\* Only an empty source list brings back a row of a source not asked for.
QueryStraysOnlyWhenEmpty ==
  (call # <<>> /\ "items" \in DOMAIN call /\ call.selected_sources # {}) =>
     Answers(call, store, InSet)


\* The host of a link target: what stands between the scheme, with a www.
\* after it, and the first slash.
HostOf(url) ==
  LET rest == IF Len(url) > 3 /\ url[2] = "www" THEN SubSeq(url, 4, Len(url))
              ELSE Tail(url)
      slash == CHOOSE j \in DOMAIN rest :
                 rest[j] = "/" /\ \A k \in 1..(j - 1) : rest[k] # "/"
  IN SubSeq(rest, 1, slash - 1)

HasTrackingPrefix(host) ==
  \E i \in DOMAIN tracking_prefixes : host[1] = tracking_prefixes[i]

Platforms ==
  {<<"beehiiv">>, <<"mail", "chimp">>, <<"constantcontact">>, <<"sendgrid">>}

OnPlatform(host) == \E p \in Platforms : Contains(host, p)

\* C21: with the structured parser at hand, a link with the visible text
\* "Read the report" and an http(s) target of more than 100 characters on
\* a tracking domain (a host with a tracking prefix, or one of a newsletter
\* platform) comes out of the Normalizer as the text, a space and the
\* extracted domain in square brackets.
LinkKeepsDomain ==
  (call # <<>> /\ "href" \in DOMAIN call /\ call.bs4
     /\ call.text = <<"Read", " ", "the", " ", "report">>
     /\ call.href[1] \in {"https://", "http://"}
     /\ CharLen(call.href) > 100
     /\ (HasTrackingPrefix(HostOf(call.href)) \/ OnPlatform(HostOf(call.href))))
  => call.output = call.text \o <<" ", "[">> \o call.domain \o <<"]">>

\* C24: for every http(s) URL the extracted domain is the canonical service
\* name when the host is of a known newsletter platform, a tracking prefix
\* before it or not; else the host without its leading tracking prefix.
DomainIsCanonical ==
  (call # <<>> /\ "href" \in DOMAIN call
     /\ call.href[1] \in {"https://", "http://"})
  => LET host == HostOf(call.href)
     IN call.domain =
          (IF OnPlatform(host)
           THEN (CHOOSE p \in Platforms : Contains(host, p)) \o <<".", "com">>
           ELSE IF HasTrackingPrefix(host) THEN SubSeq(host, 3, Len(host))
           ELSE host)


\* C22: when the Store is unavailable in a feed cycle (the session cannot
\* be opened), the cycle ends there: no further source is fetched, and the
\* summary does not hold a success for the source in hand.
StoreOutageAborts ==
  [][ \A t \in FeedThreads :
        FetchFailsOn(t, "store") =>
          /\ pc'[t] = "returned"
          /\ ~results'[t][RSS_FEEDS[src[t]]].success ]_vars


\* The entries of the batch in hand the table turned away as duplicates.
Duplicates(t) ==
  Cardinality({i \in DOMAIN item_log[t] : item_log[t][i].event = "duplicate"})

\* C23: a cycle counts its duplicates apart from its new items and its
\* errors: when a feed batch that met a duplicate is recorded, the summary
\* entry of its source holds, beside the success flag and the new-item
\* count, the number of duplicates.
DuplicatesCounted ==
  [][ \A t \in FeedThreads :
        (FinishBatch(t) /\ Duplicates(t) > 0) =>
          LET entry == results'[t][RSS_FEEDS[src[t]]]
          IN \E f \in DOMAIN entry \ {"success", "new_items"} :
               entry[f] = Duplicates(t) ]_vars


\* C25: within one feed cycle the sources are taken one after another, each
\* exactly once.  While a cycle runs, the source in hand is one of the
\* configured ones and the summary holds exactly the sources before it; the
\* position moves on by one and never back, a failed fetch moves it on like
\* any other (no retry), and the cycle returns when every source is in
\* the summary.
SourcesInTurn ==
  [][ \A t \in FeedThreads :
        /\ pc[t] \in {"fetch", "items"} =>
             /\ src[t] \in 1..NumFeeds
             /\ DOMAIN results[t] = {RSS_FEEDS[i] : i \in 1..(src[t] - 1)}
        /\ FetchFails(t) => src'[t] = src[t] + 1
        /\ (pc[t] \in {"fetch", "items"} /\ src'[t] # src[t]) =>
             /\ src'[t] = src[t] + 1
             /\ DOMAIN results'[t] = DOMAIN results[t] \cup {RSS_FEEDS[src[t]]}
        /\ (pc[t] \in {"fetch", "items"} /\ src'[t] = src[t]) =>
             results'[t] = results[t]
        /\ (pc[t] # "returned" /\ pc'[t] = "returned") =>
             /\ src'[t] = NumFeeds + 1
             /\ DOMAIN results'[t] = Range(RSS_FEEDS) ]_vars

\* A cycle has returned with every source in its summary, the fetch of one
\* of them having failed.
SourcesInTurnWitness ==
  \E t \in FeedThreads :
    /\ pc[t] = "returned"
    /\ fetch_log[t] # {}
    /\ DOMAIN results[t] = Range(RSS_FEEDS)
    /\ \E n \in DOMAIN results[t] : results[t][n].new_items > 0


\* C26: in daemon mode a shutdown signal delivered at any moment after the
\* handlers are installed leads to the main loop being left, the
\* schedulers stopped and run_daemon returned.
SignalShutsDown ==
  [](daemon.signalled =>
       <>(daemon.pc = "returned" /\ \A k \in Kinds : scheduler[k] # "running"))

\* The same for a signal that finds the main thread in its loop.
SignalInLoopShutsDown ==
  []((daemon.signalled /\ daemon.pc \in {"loop", "sleep"} /\ ~daemon.running) =>
       <>(daemon.pc = "returned" /\ \A k \in Kinds : scheduler[k] # "running"))


\* C27: starting a schedule that runs changes nothing.  A manager has at
\* most one job; while its scheduler runs the job is there and stays, the
\* scheduler is replaced by no other, and the caller of start_scheduler
\* goes into no cycle: an initial cycle begins only in the step that takes
\* the scheduler from not running to running with its one job.
StartIsIdempotent ==
  [][ \A k \in Kinds :
        /\ Cardinality(jobs[k]) <= 1
        /\ scheduler[k] = "running" =>
             /\ jobs[k] = {JobId(k)}
             /\ jobs'[k] = jobs[k]
             /\ scheduler'[k] \in {"running", "shutdown"}
             /\ pc[StartThread(k)] = "idle" => pc'[StartThread(k)] = "idle"
        /\ (pc[StartThread(k)] = "idle" /\ pc'[StartThread(k)] # "idle") =>
             /\ scheduler[k] # "running"
             /\ scheduler'[k] = "running"
             /\ jobs'[k] = {JobId(k)} ]_vars

\* Every schedule runs with its one job, its initial cycle is over and has
\* left rows of its kind, and its manager is at rest: start_scheduler is
\* open to the caller and finds the scheduler running.
StartIsIdempotentWitness ==
  \A k \in Kinds :
    /\ scheduler[k] = "running"
    /\ jobs[k] = {JobId(k)}
    /\ pc[StartThread(k)] = "idle"
    /\ \E i \in DOMAIN store : (store[i].source = "email") <=> (k = "email")
    /\ ENABLED StartScheduler(k)


\* C28: while Gmail is not authenticated there is no mail ingestion.  A
\* mail cycle is at rest or has returned, with nothing searched and
\* nothing new; the mail schedule has no scheduler and no job; the table
\* has no row from the mail.
UnauthenticatedNoMail ==
  ~authenticated =>
     /\ scheduler["email"] = "None"
     /\ jobs["email"] = {}
     /\ \A t \in MailThreads :
          /\ pc[t] \in {"idle", "returned"}
          /\ messages[t] = <<>>
          /\ new_items[t] = <<>>
          /\ idx[t] = 0
          /\ ~raised[t]
     /\ \A i \in DOMAIN store : store[i].source # "email"

\* Gmail is not authenticated; a mail cycle was called and has returned,
\* start_scheduler is open to the mail manager, and the feeds have
\* brought rows in the meantime.
UnauthenticatedNoMailWitness ==
  /\ ~authenticated
  /\ pc[ManualThread("email")] = "returned"
  /\ pc[StartThread("email")] = "idle"
  /\ ENABLED StartScheduler("email")
  /\ store # <<>>


\* C29: a link is one record, whichever source brings it: when a feed
\* source brings an entry whose link is in the table under another
\* source's name (and the commit meets no other fault), the attempt comes
\* back as a duplicate, is not counted as new, and the table, the first
\* writer's source name with it, stays as it was.
FirstWriterWins ==
  [][ \A j \in DOMAIN store :
        (/\ call' # call
         /\ "entry" \in DOMAIN call'
         /\ ~call'.fault
         /\ store[j].link = call'.item.link
         /\ store[j].source # call'.item.source)
        => /\ call'.outcome = "duplicate"
           /\ ~CountsAsNew(call'.outcome)
           /\ store' = store ]_vars

\* The second source has brought a link the first one had brought, and
\* was turned away: the row is there under the first source's name.
FirstWriterWinsWitness ==
  /\ call # <<>>
  /\ "entry" \in DOMAIN call
  /\ call.outcome = "duplicate"
  /\ call.item.source = RSS_FEEDS[2]
  /\ \E j \in DOMAIN store :
       /\ store[j].link = call.item.link
       /\ store[j].source = RSS_FEEDS[1]
  /\ \A j \in DOMAIN store : store[j].source # RSS_FEEDS[2]


\* C30: a Store session is open only while its fetch or cycle is inside the
\* item loop: on every way out (the loop ran to its end, with duplicates and
\* item errors on the way, or an exception left it) the session is closed
\* before the fetch or cycle returns, so none is open across cycles.
SessionsClosed == \A t \in Threads : sessions[t] => pc[t] = "items"

\* An exception left the item loop of a cycle that had committed a row; the
\* cycle is over and its session is closed.
SessionsClosedWitness ==
  \E k \in Kinds :
    /\ raised[JobThread(k)]
    /\ pc[JobThread(k)] = "idle"
    /\ ~sessions[JobThread(k)]
    /\ \E i \in DOMAIN store : (store[i].source = "email") <=> (k = "email")

====
